---- MODULE Spec2Model ----
(***************************************************************************)
(* Forecast grading, odds backfill and incremental backtest sync of the    *)
(* prediction system.                                                      *)
(*                                                                         *)
(* Units.  Spreads and totals are quoted in half points, so every spread   *)
(* and total of the model is an integer number of HALF POINTS              *)
(* (vegasSpread = -3 points is -6).  Scores are whole points.  Projected   *)
(* scores are kept in tenths of a point, as predictScore rounds them.      *)
(* An optional field (vegasSpread?: number) is a record [has, v].          *)
(***************************************************************************)
EXTENDS Integers, FiniteSets, Sequences, TLC

VARIABLES
    gin,        \* grading: the (prediction, market line, final score) under test
    verdicts,   \* grading: verdict of each spread-grading call site, "none" before it ran
    picks,      \* grading: side picked by each call site
    mlGrades,   \* grading: moneyline pick and verdict of each moneyline call site
    nbaResults, \* NBA blob: backtest.results, by gameId
    nbaHist,    \* NBA blob: historicalOdds, by gameId
    oddsLocks,  \* Firestore sports/nba/oddsLocks, by gameId
    oddsLast,   \* last odds handler run: [op, ok]
    world,      \* schedule feed: status and final score of every game
    blob,       \* NFL blob prediction-matrix-data.json (NoBlob before the first upload)
    lastRun,    \* last sync run: what it read, processed and returned
    tallies,    \* calibration: what evaluating each candidate on the loaded games returned
    ranked,     \* calibration: response of each calibrator's last run
    strategies, \* Firestore nbaStrategies/convictionFilters
    store,      \* per-sport runs: the blobs by name and the oddsLocks by sport
    runs        \* per-sport runs: where each sport's odds backfill is, and what it holds

vars == <<gin, verdicts, picks, mlGrades, nbaResults, nbaHist, oddsLocks, oddsLast, world, blob, lastRun,
         tallies, ranked, strategies, store, runs>>

gradeVars == <<gin, verdicts, picks, mlGrades>>
oddsVars == <<nbaResults, nbaHist, oddsLocks, oddsLast>>
syncVars == <<world, blob, lastRun>>
calibVars == <<tallies, ranked, strategies>>
runVars == <<store, runs>>

----------------------------------------------------------------------------
(* Bounds of the model *)

MaxLine == 2        \* market and predicted spreads range over -MaxLine..MaxLine half points
MaxScore == 2       \* final scores range over 0..MaxScore points

Absent == [has |-> FALSE, v |-> 0]
Some(x) == [has |-> TRUE, v |-> x]

Lines == (-MaxLine)..MaxLine
OptLines == {Absent} \cup {Some(x) : x \in Lines}
Scores == 0..MaxScore

----------------------------------------------------------------------------
(* Spread grading call sites *)

\* actualSpread as every result stores it: away score minus home score
ActualSpread(hs, as) == 2 * (as - hs)

\* pickHome as every ATS call site computes it
PickHome(pred, line) == pred < line

\* the win/loss/push ladder on (actualSpread, vegasSpread)
AtsLadder(pickHome, actualSpread, line) ==
    IF pickHome
      THEN IF actualSpread < line THEN "win"
           ELSE IF actualSpread > line THEN "loss" ELSE "push"
      ELSE IF actualSpread > line THEN "win"
           ELSE IF actualSpread < line THEN "loss" ELSE "push"

\* getATSResult
GetATSResult(hs, as, vegas, pickHome) ==
    IF ~vegas.has THEN "push"
    ELSE LET actualMargin == 2 * (hs - as)
             homeCovered == actualMargin > vegas.v
             awayCovered == actualMargin < vegas.v
         IN IF pickHome
              THEN IF homeCovered THEN "win" ELSE IF awayCovered THEN "loss" ELSE "push"
              ELSE IF awayCovered THEN "win" ELSE IF homeCovered THEN "loss" ELSE "push"

\* testFilter, the grading of one game that passes the filter
TestFilterVerdict(hs, as, line, pickHome) ==
    LET actualMargin == 2 * (hs - as)
        coverMargin == actualMargin + line
        homeCovered == coverMargin > 0
        awayCovered == coverMargin < 0
    IN IF pickHome
         THEN IF homeCovered THEN "win" ELSE IF awayCovered THEN "loss" ELSE "push"
         ELSE IF awayCovered THEN "win" ELSE IF homeCovered THEN "loss" ELSE "push"

\* computeAtsResult
ComputeAtsResult(actualSpread, vegasSpread, pickHome) ==
    LET homeMargin == -actualSpread
        ats == homeMargin + vegasSpread
        homeCovers == ats > 0
    IN IF ats = 0 THEN "push"
       ELSE IF pickHome THEN (IF homeCovers THEN "win" ELSE "loss")
            ELSE (IF homeCovers THEN "loss" ELSE "win")

\* formulaSimulation.homeField: the simulated pick and its grade; adj = hfa - 2.5
FormulaSimPick(pred, adj) == IF pred - adj < 0 THEN "home" ELSE "away"
FormulaSimVerdict(pred, adj, vegas, actualSpread) ==
    LET vegasSpread == IF vegas.has /\ vegas.v # 0 THEN vegas.v ELSE 0
    IN AtsLadder(FormulaSimPick(pred, adj) = "home", actualSpread, vegasSpread)

Side(pickHome) == IF pickHome THEN "home" ELSE "away"

ELO_HOME_ADVANTAGE == 48

\* homeWinProb > 0.5, with homeWinProb = 1 / (1 + 10^((awayElo - adjustedHomeElo) / 400))
HomeFavoured(homeElo, awayElo) == awayElo - (homeElo + ELO_HOME_ADVANTAGE) < 0

\* "ML result" of the sync loop: mlPick and mlResult
MlResult(homeElo, awayElo, hs, as) ==
    LET mlPick == IF HomeFavoured(homeElo, awayElo) THEN "home" ELSE "away"
        homeWon == hs > as
    IN [pick |-> mlPick,
        verdict |-> IF (mlPick = "home" /\ homeWon) \/ (mlPick = "away" /\ ~homeWon)
                      THEN "win" ELSE "loss"]

\* "ML result" of simulate: predictedHomeWin === actualHomeWin
SimulateMl(homeElo, awayElo, hs, as) ==
    LET predictedHomeWin == HomeFavoured(homeElo, awayElo)
        actualHomeWin == hs > as
    IN [pick |-> Side(predictedHomeWin),
        verdict |-> IF predictedHomeWin = actualHomeWin THEN "win" ELSE "loss"]

MlSites == {"sync", "simulate"}
NoMlGrades == [s \in MlSites |-> [pick |-> "none", verdict |-> "none"]]

\* ratings of the home side the grading is tried on, against an away side at 1500:
\* the home side favoured, the two sides level after the home bonus, the away side favoured
HomeElos == {1500, 1452, 1400}

Sites == {"applyOdds", "getATSResult", "testFilter", "computeAtsResult", "runSimulation",
          "formulaSimulation"}

NoVerdicts == [s \in Sites |-> "none"]

\* home-field values of formulaSimulation as adjustments hfa - 2.5, in half points
HfaAdjustments == {-5, -3, -2, -1, 0, 1, 2, 3}

GradeInputs ==
    [pred : Lines, vegas : OptLines, hs : Scores, as : Scores, homeElo : HomeElos]

GradeIdle == [pred |-> 0, vegas |-> Absent, hs |-> 0, as |-> 0, homeElo |-> 1500]

SetSite(site, pick, verdict) ==
    /\ verdicts[site] = "none"
    /\ verdicts' = [verdicts EXCEPT ![site] = verdict]
    /\ picks' = [picks EXCEPT ![site] = pick]
    /\ UNCHANGED <<gin, mlGrades, oddsVars, syncVars, calibVars, runVars>>

\* backfill / apply-odds: "Recalculate ATS result" for a game whose odds were found
GradeApplyOdds ==
    /\ gin.vegas.has
    /\ LET pickHome == PickHome(gin.pred, gin.vegas.v)
       IN SetSite("applyOdds", Side(pickHome),
                  AtsLadder(pickHome, ActualSpread(gin.hs, gin.as), gin.vegas.v))

\* nba-deep-ats-analysis GET: for (const game of withOdds) ... getATSResult(game, pickHome)
GradeGetATSResult ==
    /\ gin.vegas.has
    /\ LET pickHome == PickHome(gin.pred, gin.vegas.v)
       IN SetSite("getATSResult", Side(pickHome),
                  GetATSResult(gin.hs, gin.as, gin.vegas, pickHome))

\* nba-conviction-optimizer testFilter with the baseline (empty) filter
GradeTestFilter ==
    /\ gin.vegas.has
    /\ LET pickHome == PickHome(gin.pred, gin.vegas.v)
       IN SetSite("testFilter", Side(pickHome),
                  TestFilterVerdict(gin.hs, gin.as, gin.vegas.v, pickHome))

\* line-movement backtest analyzeSport: a result that carries no stored atsResult
GradeComputeAtsResult ==
    /\ gin.vegas.has
    /\ LET pickHome == PickHome(gin.pred, gin.vegas.v)
       IN SetSite("computeAtsResult", Side(pickHome),
                  ComputeAtsResult(ActualSpread(gin.hs, gin.as), gin.vegas.v, pickHome))

\* optimizer runSimulation: "ATS vs Vegas"
GradeRunSimulation ==
    /\ gin.vegas.has
    /\ LET pickHome == PickHome(gin.pred, gin.vegas.v)
       IN SetSite("runSimulation", Side(pickHome),
                  AtsLadder(pickHome, ActualSpread(gin.hs, gin.as), gin.vegas.v))

\* optimize GET formulaSimulation.homeField, one home-field value
GradeFormulaSimulation ==
    /\ gin.vegas.has
    /\ \E adj \in HfaAdjustments :
          SetSite("formulaSimulation", FormulaSimPick(gin.pred, adj),
                  FormulaSimVerdict(gin.pred, adj, gin.vegas, ActualSpread(gin.hs, gin.as)))

\* the sync loop's moneyline grade of one completed game
GradeMoneylineSync ==
    /\ mlGrades["sync"].verdict = "none"
    /\ mlGrades' = [mlGrades EXCEPT !["sync"] = MlResult(gin.homeElo, 1500, gin.hs, gin.as)]
    /\ UNCHANGED <<gin, verdicts, picks, oddsVars, syncVars, calibVars, runVars>>

\* nba-full-optimize simulate: the moneyline tally of one game; a basketball game has
\* no tied final score
GradeMoneylineSimulate ==
    /\ mlGrades["simulate"].verdict = "none"
    /\ gin.hs # gin.as
    /\ mlGrades' = [mlGrades EXCEPT !["simulate"] = SimulateMl(gin.homeElo, 1500, gin.hs, gin.as)]
    /\ UNCHANGED <<gin, verdicts, picks, oddsVars, syncVars, calibVars, runVars>>

GradeInit ==
    /\ gin \in GradeInputs
    /\ verdicts = NoVerdicts
    /\ picks = NoVerdicts
    /\ mlGrades = NoMlGrades

GradeNext ==
    \/ GradeApplyOdds
    \/ GradeGetATSResult
    \/ GradeTestFilter
    \/ GradeComputeAtsResult
    \/ GradeRunSimulation
    \/ GradeFormulaSimulation
    \/ GradeMoneylineSync
    \/ GradeMoneylineSimulate

----------------------------------------------------------------------------
(* Pick rule, push and the cover convention across the call sites *)

\* C1 (as claimed): for a game with a market spread, a call site that grades and counts
\* the game picked home exactly when predictedSpread < marketSpread and away exactly when
\* predictedSpread > marketSpread; with predictedSpread = marketSpread no site picks,
\* grades or counts the game.
C1_PickByEdge ==
    \A s \in Sites :
        verdicts[s] # "none" =>
            /\ gin.pred # gin.vegas.v
            /\ picks[s] = (IF gin.pred < gin.vegas.v THEN "home" ELSE "away")

\* C14 (as claimed): a moneyline grade is win or loss, and it is win exactly when the
\* side picked is the side that won the game.
C14_MoneylineWinIffPickedWon ==
    \A s \in MlSites :
        mlGrades[s].verdict # "none" =>
            /\ mlGrades[s].verdict \in {"win", "loss"}
            /\ mlGrades[s].verdict = "win" <=>
                  \/ (mlGrades[s].pick = "home" /\ gin.hs > gin.as)
                  \/ (mlGrades[s].pick = "away" /\ gin.as > gin.hs)

\* C2 (as claimed): when the actual margin equals the market spread exactly (both in the
\* home-relative convention of the stored results, away score minus home score), every
\* call site returns push, whichever side was picked.
C2_PushExact ==
    \A s \in Sites :
        (verdicts[s] # "none" /\ ActualSpread(gin.hs, gin.as) = gin.vegas.v)
            => verdicts[s] = "push"

\* C3 (as claimed): one cover convention: any two call sites that grade the same pick on
\* the same market spread and final score return the same verdict.
C3_OneConvention ==
    \A s, t \in Sites :
        (verdicts[s] # "none" /\ verdicts[t] # "none" /\ picks[s] = picks[t])
            => verdicts[s] = verdicts[t]

----------------------------------------------------------------------------
(* NBA odds handlers: nba-fetch-historical-odds, the ESPN odds backfill and  *)
(* nba-apply-odds, over the blob nba-prediction-data.json and the Firestore  *)
(* collection sports/nba/oddsLocks                                           *)

NbaGameIds == {"g1", "g2"}

\* a market quote: the record fetchESPNOdds / getConsensusFromBookmakers return, or null
NoQuote == [has |-> FALSE, spread |-> 0, total |-> 0]
\* the feeds of the model quote one of two lines for a game, and may quote a different one
\* on a later call
Quotes == {[has |-> TRUE, spread |-> -2, total |-> 2], [has |-> TRUE, spread |-> 0, total |-> 4]}
OptQuotes == {NoQuote} \cup Quotes

\* "Recalculate O/U result"
OuLadder(predictedTotal, actualTotal, total) ==
    IF predictedTotal > total
      THEN IF actualTotal > total THEN "win"
           ELSE IF actualTotal < total THEN "loss" ELSE "push"
      ELSE IF actualTotal < total THEN "win"
           ELSE IF actualTotal > total THEN "loss" ELSE "push"

\* a stored result with the odds of quote q applied and both grades recomputed
Regrade(r, q) ==
    [r EXCEPT !.vegasSpread = Some(q.spread),
              !.vegasTotal = Some(q.total),
              !.atsResult = AtsLadder(PickHome(r.predictedSpread, q.spread),
                                      r.actualSpread, q.spread),
              !.ouVegasResult = OuLadder(r.predictedTotal, r.actualTotal, q.total)]

\* results as a sync run stores them before any odds are known: a prediction and
\* the final score (home, away) it was made for.  spreadEdge and isHighConviction are the
\* further keys of a result ([key: string]: unknown) that the summaries read; with no
\* line known there is no edge and no conviction
FinalScores == {<<1, 0>>, <<0, 1>>, <<1, 1>>}
UngradedResults ==
    {[predictedSpread |-> p, predictedTotal |-> 3,
      actualSpread |-> ActualSpread(sc[1], sc[2]), actualTotal |-> 2 * (sc[1] + sc[2]),
      vegasSpread |-> Absent, vegasTotal |-> Absent,
      atsResult |-> "none", ouVegasResult |-> "none",
      spreadEdge |-> Absent, isHighConviction |-> FALSE] : p \in {-2, -1}, sc \in FinalScores}

OddsIdle == [op |-> "none", ok |-> TRUE, dryRun |-> FALSE, readOk |-> {}]

\* the games of a fetch loop whose external read returned a value: a game whose read
\* returned null is counted as failed and the loop goes on to the next one
FetchedAllOrNone(toProcess, feed) == IF \A g \in toProcess : feed[g].has THEN toProcess ELSE {}
Fetched(toProcess, feed) == {g \in toProcess : feed[g].has}

\* nba-fetch-historical-odds GET: consensus[g] is what the Odds API yields for game g;
\* failAt is the awaited call that throws, if one does
FetchHistoricalOdds ==
    \E failAt \in {"none", "read", "put"}, consensus \in [NbaGameIds -> OptQuotes] :
        LET gamesToFetch == {g \in NbaGameIds : ~nbaHist[g].has}
            matched == Fetched(gamesToFetch, consensus)
            historicalOdds ==
                [g \in NbaGameIds |-> IF g \in matched THEN consensus[g] ELSE nbaHist[g]]
        IN /\ nbaHist' = IF failAt = "none" THEN historicalOdds ELSE nbaHist
           /\ oddsLast' = [op |-> "fetchHistoricalOdds", ok |-> failAt = "none",
                           dryRun |-> FALSE,
                           readOk |-> IF failAt = "none"
                                      THEN {g \in gamesToFetch : consensus[g].has} ELSE {}]
           /\ UNCHANGED <<nbaResults, oddsLocks, gradeVars, syncVars, calibVars, runVars>>

\* ESPN odds backfill GET: espn[g] is what fetchESPNOdds returns for game g.  oddsLast
\* keeps, of a run that completed, the games whose read returned a value
BackfillOdds ==
    \E failAt \in {"none", "read", "put", "saveDocsBatch"}, dryRun \in BOOLEAN,
       espn \in [NbaGameIds -> OptQuotes] :
        LET gamesWithoutOdds == {g \in NbaGameIds : ~nbaResults[g].vegasSpread.has}
            updates == Fetched(gamesWithoutOdds, espn)
            results == [g \in NbaGameIds |->
                          IF g \in updates THEN Regrade(nbaResults[g], espn[g])
                          ELSE nbaResults[g]]
            historicalOdds == [g \in NbaGameIds |->
                          IF g \in updates /\ ~nbaHist[g].has THEN espn[g] ELSE nbaHist[g]]
            wrotePut == failAt \in {"none", "saveDocsBatch"} /\ ~dryRun
            wroteFs == failAt = "none" /\ ~dryRun
        IN /\ nbaResults' = IF wrotePut THEN results ELSE nbaResults
           /\ nbaHist' = IF wrotePut THEN historicalOdds ELSE nbaHist
           /\ oddsLocks' = [g \in NbaGameIds |->
                               IF wroteFs /\ g \in updates THEN espn[g] ELSE oddsLocks[g]]
           /\ oddsLast' = [op |-> "backfillOdds",
                           ok |-> failAt = "none" \/ (dryRun /\ failAt # "read"),
                           dryRun |-> dryRun,
                           readOk |-> IF failAt = "none" /\ ~dryRun
                                      THEN {g \in gamesWithoutOdds : espn[g].has} ELSE {}]
           /\ UNCHANGED <<gradeVars, syncVars, calibVars, runVars>>

\* nba-apply-odds GET
ApplyOdds ==
    \E failAt \in {"none", "getDocsMap", "read", "put"} :
        LET historicalOdds == oddsLocks
            results == [g \in NbaGameIds |->
                          IF historicalOdds[g].has
                            THEN Regrade(nbaResults[g], historicalOdds[g])
                            ELSE nbaResults[g]]
        IN /\ nbaResults' = IF failAt = "none" THEN results ELSE nbaResults
           /\ nbaHist' = IF failAt = "none" THEN historicalOdds ELSE nbaHist
           /\ oddsLast' = [op |-> "applyOdds", ok |-> failAt = "none", dryRun |-> FALSE,
                           readOk |-> {}]
           /\ UNCHANGED <<oddsLocks, gradeVars, syncVars, calibVars, runVars>>

OddsInit ==
    /\ nbaResults \in [NbaGameIds -> UngradedResults]
    /\ nbaHist = [g \in NbaGameIds |-> NoQuote]
    /\ oddsLocks = [g \in NbaGameIds |-> NoQuote]
    /\ oddsLast = OddsIdle

OddsNext ==
    \/ FetchHistoricalOdds
    \/ BackfillOdds
    \/ ApplyOdds

----------------------------------------------------------------------------
(* Line lock and atomic persistence of the odds handlers *)

Graded(g) == nbaResults[g].atsResult # "none"

\* C5 (as claimed): once a game is graded against a captured line, no later operation
\* changes a line stored for that game (in the result, in the blob's historicalOdds or
\* in oddsLocks) or re-grades it against a different line.
C5_LineLock ==
    [][\A g \in NbaGameIds :
          Graded(g) =>
              /\ nbaResults'[g].vegasSpread = nbaResults[g].vegasSpread
              /\ nbaResults'[g].atsResult = nbaResults[g].atsResult
              /\ (nbaHist[g].has => nbaHist'[g] = nbaHist[g])
              /\ (oddsLocks[g].has => oddsLocks'[g] = oddsLocks[g])]_vars

Abs(x) == IF x < 0 THEN -x ELSE x

\* C11 (as claimed): a result that carries a market line carries the spread verdict, the
\* total verdict and the edge and conviction computed from that line: nothing stored with
\* the line is left over from the old or absent line.
C11_BackfillRecomputesAll ==
    \A g \in NbaGameIds :
        LET r == nbaResults[g]
        IN r.vegasSpread.has =>
              /\ r.atsResult = AtsLadder(PickHome(r.predictedSpread, r.vegasSpread.v),
                                         r.actualSpread, r.vegasSpread.v)
              /\ r.ouVegasResult = OuLadder(r.predictedTotal, r.actualTotal, r.vegasTotal.v)
              /\ r.spreadEdge = Some(Abs(r.predictedSpread - r.vegasSpread.v))
              /\ r.isHighConviction = (Abs(r.predictedSpread - r.vegasSpread.v) >= 3)

----------------------------------------------------------------------------
(* Total grading call sites: the verdict each reports for one stored result *)

\* "Recalculate backtest summary from all results", the O/U tally of one result:
\* r.ouVegasResult === 'win' || r.ouResult === 'win', then loss, then push
SummaryOu(ouVegasResult, ouResult) ==
    IF ouVegasResult = "win" \/ ouResult = "win" THEN "win"
    ELSE IF ouVegasResult = "loss" \/ ouResult = "loss" THEN "loss"
    ELSE IF ouVegasResult = "push" \/ ouResult = "push" THEN "push"
    ELSE "none"

TotalSites == {"backfill", "summary"}

\* totals in half points; ouResult is the total verdict the sync stored with the result
\* before the market total was known ("none": it stored none)
TotalInputs ==
    [predictedTotal : 2..4, vegasTotal : 2..4, actualTotal : 1..5,
     ouResult : {"none", "win", "loss", "push"}]

\* the backfill's "Recalculate O/U result" for the result
TotalBackfill ==
    /\ verdicts["backfill"] = "none"
    /\ verdicts' = [verdicts EXCEPT !["backfill"] =
                       OuLadder(gin.predictedTotal, gin.actualTotal, gin.vegasTotal)]
    /\ UNCHANGED <<gin, picks, mlGrades, oddsVars, syncVars, calibVars, runVars>>

\* the verdict the recalculated summary counts for the result, after the backfill
TotalSummary ==
    /\ verdicts["backfill"] # "none"
    /\ verdicts["summary"] = "none"
    /\ verdicts' = [verdicts EXCEPT !["summary"] = SummaryOu(verdicts["backfill"], gin.ouResult)]
    /\ UNCHANGED <<gin, picks, mlGrades, oddsVars, syncVars, calibVars, runVars>>

TotalInit ==
    /\ gin \in TotalInputs
    /\ verdicts = [s \in TotalSites |-> "none"]
    /\ picks = NoVerdicts
    /\ mlGrades = NoMlGrades

TotalNext ==
    \/ TotalBackfill
    \/ TotalSummary

\* C15 (as claimed): the verdict reported for a result is the grade of its
\* (predicted, market, actual) triple, whatever verdict was stored with it before.
C15_VerdictOfTripleOnly ==
    \A s \in TotalSites :
        verdicts[s] # "none" =>
            verdicts[s] = OuLadder(gin.predictedTotal, gin.actualTotal, gin.vegasTotal)

\* C9 (as claimed): persisted state is replaced atomically and only on success, so a
\* handler run that ends in an error leaves blob and oddsLocks as they were.
C9_AtomicReplaceOnSuccess ==
    [][~oddsLast'.ok =>
          /\ nbaResults' = nbaResults
          /\ nbaHist' = nbaHist
          /\ oddsLocks' = oddsLocks]_vars

----------------------------------------------------------------------------
(* Incremental blob sync: the score model, the per-game grading and the run   *)

LEAGUE_AVG_PPG == 22
ELO_CAP == 4
OU_LINE == 44            \* the total every game is graded against, in points
START_ELO == 1500

\* Projected scores are computed exactly, in units of 1/20000 point, so that
\* ELO_TO_POINTS / 2 = 0.0593 / 2 is 593 units per Elo point,
\* HOME_FIELD_ADVANTAGE / 2 = 1.14 points is 22800 units and a tenth is 2000 units.
\* Within the range of the model the exact results equal the IEEE doubles of the code.
Unit == 20000
EloToPointsHalf == 593
HomeFieldHalf == 22800

Max(a, b) == IF a > b THEN a ELSE b
Min(a, b) == IF a < b THEN a ELSE b

\* Math.round(n / d) for d > 0: halves go up
RoundDiv(n, d) == (2 * n + d) \div (2 * d)

\* regress, on a per-game stat given in tenths of a point
Regress(stat) == stat * 7 * (Unit \div 100) + LEAGUE_AVG_PPG * 3 * (Unit \div 10)

\* predictScore: [homeScore, awayScore] in tenths of a point
PredictScore(homeElo, awayElo, homePPG, homePPGAllowed, awayPPG, awayPPGAllowed) ==
    LET homeBase == (Regress(homePPG) + Regress(awayPPGAllowed)) \div 2
        awayBase == (Regress(awayPPG) + Regress(homePPGAllowed)) \div 2
        eloDiff == homeElo - awayElo
        rawAdj == eloDiff * EloToPointsHalf
        eloAdj == IF ELO_CAP > 0
                    THEN Max(-(ELO_CAP * Unit) \div 2, Min((ELO_CAP * Unit) \div 2, rawAdj))
                    ELSE rawAdj
        homeScore == homeBase + (eloAdj + HomeFieldHalf)
        awayScore == awayBase - (eloAdj - HomeFieldHalf)
    IN [homeScore |-> RoundDiv(homeScore, Unit \div 10),
        awayScore |-> RoundDiv(awayScore, Unit \div 10)]

\* calculateSpread, SPREAD_REGRESSION = 0.55: from tenths of a point to half points,
\* Math.round(raw * 0.45 * 2) with raw = (awayScore - homeScore) / 10
CalculateSpread(homeScore, awayScore) == RoundDiv((awayScore - homeScore) * 9, 100)

\* updateEloAfterGame: zero-sum Elo step, K = 20, expected score linearised around 0
ExpectedHomePct(homeElo, awayElo) ==
    Max(0, Min(100, 50 + (homeElo + ELO_HOME_ADVANTAGE - awayElo) \div 8))
UpdateEloAfterGame(homeElo, awayElo, homeScore, awayScore) ==
    LET actualPct == IF homeScore > awayScore THEN 100
                     ELSE IF homeScore < awayScore THEN 0 ELSE 50
        delta == (20 * (actualPct - ExpectedHomePct(homeElo, awayElo))) \div 100
    IN [homeNewElo |-> homeElo + delta, awayNewElo |-> awayElo - delta]

Teams == {"T1", "T2"}
NflGameIds == {"a", "b"}

\* the schedule: scheduled kick-off and sides of every game.  Both games belong to the
\* week the schedule feed currently serves, so a first run (fetchAllCompletedGames) and a
\* later run (fetchNFLSchedule) are offered the same completed games
GameTime == [a |-> 1, b |-> 2]
HomeTeam == [a |-> "T1", b |-> "T2"]
AwayTeam == [a |-> "T2", b |-> "T1"]

\* final scores (home, away) the feed may report
NflScores == {<<24, 20>>, <<17, 20>>, <<22, 22>>}
\* points per game the team feed may report, in tenths
PpgValues == {170, 270}

NoSummary == [sw |-> 0, sl |-> 0, sp |-> 0, mw |-> 0, ml |-> 0, ow |-> 0, ol |-> 0, op |-> 0]

NoBlob == [exists |-> FALSE, teams |-> [t \in Teams |-> START_ELO], processedGameIds |-> {},
           results |-> <<>>, summary |-> NoSummary]

\* the tally "Update totals" of one graded game
Tally(summary, spreadResult, mlResult, ouResult) ==
    [sw |-> summary.sw + (IF spreadResult = "win" THEN 1 ELSE 0),
     sl |-> summary.sl + (IF spreadResult = "loss" THEN 1 ELSE 0),
     sp |-> summary.sp + (IF spreadResult \notin {"win", "loss"} THEN 1 ELSE 0),
     mw |-> summary.mw + (IF mlResult = "win" THEN 1 ELSE 0),
     ml |-> summary.ml + (IF mlResult # "win" THEN 1 ELSE 0),
     ow |-> summary.ow + (IF ouResult = "win" THEN 1 ELSE 0),
     ol |-> summary.ol + (IF ouResult = "loss" THEN 1 ELSE 0),
     op |-> summary.op + (IF ouResult \notin {"win", "loss"} THEN 1 ELSE 0)]

\* the backtest result the loop body builds for game g from the current ratings
GradeGame(g, elo, ppg, score) ==
    LET homeElo == elo[HomeTeam[g]]
        awayElo == elo[AwayTeam[g]]
        pred == PredictScore(homeElo, awayElo, ppg[HomeTeam[g]], LEAGUE_AVG_PPG * 10,
                             ppg[AwayTeam[g]], LEAGUE_AVG_PPG * 10)
        predictedSpread == CalculateSpread(pred.homeScore, pred.awayScore)
        predictedTotal == pred.homeScore + pred.awayScore
        actualSpread == ActualSpread(score[1], score[2])
        actualTotal == score[1] + score[2]
        homeWon == score[1] > score[2]
        spreadPick == IF predictedSpread < 0 THEN "home" ELSE "away"
        mlPick == IF HomeFavoured(homeElo, awayElo) THEN "home" ELSE "away"
        ouPick == IF predictedTotal > OU_LINE * 10 THEN "over" ELSE "under"
    IN [gameId |-> g, homeElo |-> homeElo, awayElo |-> awayElo,
        predictedSpread |-> predictedSpread,
        actualSpread |-> actualSpread,
        vegasSpread |-> Absent,
        spreadPick |-> spreadPick,
        spreadResult |-> AtsLadder(spreadPick = "home", actualSpread, predictedSpread),
        mlResult |-> IF (mlPick = "home" /\ homeWon) \/ (mlPick = "away" /\ ~homeWon)
                       THEN "win" ELSE "loss",
        ouResult |-> IF ouPick = "over"
                       THEN IF actualTotal > OU_LINE THEN "win"
                            ELSE IF actualTotal < OU_LINE THEN "loss" ELSE "push"
                       ELSE IF actualTotal < OU_LINE THEN "win"
                            ELSE IF actualTotal > OU_LINE THEN "loss" ELSE "push"]

\* every order in which a feed may list the games of S
Perms(S) ==
    {f \in [1..Cardinality(S) -> S] : \A i, j \in 1..Cardinality(S) : i # j => f[i] # f[j]}

\* newGames.sort((a, b) => time(a) - time(b)): a stable sort by kick-off
InsertByTime(sorted, g) ==
    LET k == Cardinality({i \in 1..Len(sorted) : GameTime[sorted[i]] <= GameTime[g]})
    IN SubSeq(sorted, 1, k) \o <<g>> \o SubSeq(sorted, k + 1, Len(sorted))
RECURSIVE SortFrom(_, _)
SortFrom(seq, acc) ==
    IF seq = <<>> THEN acc ELSE SortFrom(Tail(seq), InsertByTime(acc, Head(seq)))
SortByGameTime(seq) == SortFrom(seq, <<>>)

\* homeTeam.eloRating = homeNewElo; awayTeam.eloRating = awayNewElo
SetNewEloHomeOnly(teams, g, new) == [teams EXCEPT ![HomeTeam[g]] = new.homeNewElo]
SetNewElo(teams, g, new) ==
    [teams EXCEPT ![HomeTeam[g]] = new.homeNewElo, ![AwayTeam[g]] = new.awayNewElo]

\* "5. Process new games": the loop over newGames, from run state st
RECURSIVE ProcessGames(_, _, _)
ProcessGames(newGames, st, ppg) ==
    IF newGames = <<>> THEN st
    ELSE LET g == Head(newGames)
         IN IF ~world[g].hasScore
              THEN ProcessGames(Tail(newGames), st, ppg)
              ELSE LET r == GradeGame(g, st.teams, ppg, world[g].score)
                       new == UpdateEloAfterGame(r.homeElo, r.awayElo,
                                                 world[g].score[1], world[g].score[2])
                   IN ProcessGames(Tail(newGames),
                        [teams |-> SetNewElo(st.teams, g, new),
                         processedGameIds |-> st.processedGameIds \cup {g},
                         summary |-> Tally(st.summary, r.spreadResult, r.mlResult, r.ouResult),
                         newResults |-> Append(st.newResults, r),
                         order |-> Append(st.order, g)],
                        ppg)

\* fetchExistingBlob: the stored state, or null (NoBlob) when there is none or the read fails
FetchExistingBlob(readOk) == IF readOk /\ blob.exists THEN blob ELSE NoBlob

\* newGames: the completed games of the feed that are not in processedGameIds
NewGamesUnfiltered(feed, processedGameIds) == feed
NewGames(feed, processedGameIds) ==
    LET Unprocessed(g) == g \notin processedGameIds
    IN SelectSeq(feed, Unprocessed)

\* GET of the blob sync.  readOk: fetchExistingBlob got the stored state; failAt: the
\* awaited feed call or upload that throws, if one does; ppg: the team feed's points per
\* game; feed: the completed games in the order the schedule feed lists them
Sync ==
    \E readOk \in BOOLEAN, failAt \in {"none", "feed", "put"}, ppg \in [Teams -> PpgValues],
       feed \in Perms({g \in NflGameIds : world[g].status = "final"}) :
        LET existingState == FetchExistingBlob(readOk)
            isFirstRun == ~existingState.exists \/ existingState.processedGameIds = {}
            newGames == SortByGameTime(NewGames(feed, existingState.processedGameIds))
            st == ProcessGames(newGames,
                               [teams |-> existingState.teams,
                                processedGameIds |-> existingState.processedGameIds,
                                summary |-> existingState.summary,
                                newResults |-> <<>>,
                                order |-> <<>>],
                               ppg)
            blobData == [exists |-> TRUE,
                         teams |-> st.teams,
                         processedGameIds |-> st.processedGameIds,
                         results |-> st.newResults \o existingState.results,
                         summary |-> st.summary]
        IN /\ blob' = IF failAt = "none" THEN blobData ELSE blob
           /\ lastRun' = [tick |-> 1 - lastRun.tick,
                          ok |-> failAt = "none",
                          loaded |-> existingState.exists,
                          firstRun |-> isFirstRun,
                          order |-> IF failAt = "none" THEN st.order ELSE <<>>]
           /\ UNCHANGED <<world, gradeVars, oddsVars, calibVars, runVars>>

\* the schedule feed marks game g final; its score may not be reported yet
GameFinal(g) ==
    /\ world[g].status = "scheduled"
    /\ \A h \in NflGameIds : GameTime[h] < GameTime[g] => world[h].status = "final"
    /\ \E score \in NflScores, hasScore \in BOOLEAN :
          world' = [world EXCEPT ![g] = [status |-> "final", hasScore |-> hasScore,
                                         score |-> IF hasScore THEN score ELSE <<0, 0>>]]
    /\ UNCHANGED <<blob, lastRun, gradeVars, oddsVars, calibVars, runVars>>

\* the feed reports the score of a final game that had none
ScoreArrives(g) ==
    /\ world[g].status = "final" /\ ~world[g].hasScore
    /\ \E score \in NflScores :
          world' = [world EXCEPT ![g] = [status |-> "final", hasScore |-> TRUE,
                                         score |-> score]]
    /\ UNCHANGED <<blob, lastRun, gradeVars, oddsVars, calibVars, runVars>>

SyncIdleRun == [tick |-> 0, ok |-> TRUE, loaded |-> FALSE, firstRun |-> TRUE, order |-> <<>>]
Unplayed == [g \in NflGameIds |-> [status |-> "scheduled", hasScore |-> FALSE, score |-> <<0, 0>>]]

SyncInit ==
    /\ world = Unplayed
    /\ blob = NoBlob
    /\ lastRun = SyncIdleRun

SyncNext ==
    \/ Sync
    \/ \E g \in NflGameIds : GameFinal(g)
    \/ \E g \in NflGameIds : ScoreArrives(g)

----------------------------------------------------------------------------
(* Grading without a line, re-runs, chronology and read failure of the sync *)

Verdicts == {"win", "loss", "push"}

\* a step of the model that is a run of the sync
SyncRan == lastRun'.tick # lastRun.tick

\* C4 (as claimed): a game with no market line carries no spread or total verdict and is
\* counted in no spread or total tally.
C4_NoLineNoVerdict ==
    /\ \A i \in 1..Len(blob.results) :
          (blob.results[i].spreadResult \in Verdicts \/ blob.results[i].ouResult \in Verdicts)
              => blob.results[i].vegasSpread.has
    /\ (\A i \in 1..Len(blob.results) : ~blob.results[i].vegasSpread.has)
          => blob.summary.sw + blob.summary.sl + blob.summary.sp
               + blob.summary.ow + blob.summary.ol + blob.summary.op = 0

\* C6 (as claimed): no run replays a game whose id is in the persisted processed set.
C6_ProcessedSkipped ==
    [][SyncRan =>
          \A i \in 1..Len(lastRun'.order) : lastRun'.order[i] \notin blob.processedGameIds]_vars

\* every completed game the feed can serve is already in the persisted processed set
NoNewGames ==
    /\ blob.exists
    /\ \A g \in NflGameIds :
          (world[g].status = "final" /\ world[g].hasScore) => g \in blob.processedGameIds

\* C7 (as claimed): a run that finds no new games leaves every rating and every result
\* count as the run before left them.
C7_RerunIdentical ==
    [][(SyncRan /\ NoNewGames) =>
          /\ blob'.teams = blob.teams
          /\ blob'.summary = blob.summary
          /\ Len(blob'.results) = Len(blob.results)]_vars

\* C8 (as claimed): a run that continues from the persisted ratings replays no game
\* scheduled before a game that has already updated those ratings.
C8_Chronological ==
    [][(SyncRan /\ lastRun'.loaded) =>
          \A i \in 1..Len(lastRun'.order) : \A h \in blob.processedGameIds :
              GameTime[h] <= GameTime[lastRun'.order[i]]]_vars

\* C10 (as claimed): a run whose read of the persisted state failed discards nothing of
\* it: the processed set and every stored result are still there after the run.
C10_ReadFailureKeepsState ==
    [][(SyncRan /\ blob.exists /\ ~lastRun'.loaded) =>
          /\ blob.processedGameIds \subseteq blob'.processedGameIds
          /\ \A i \in 1..Len(blob.results) :
                \E j \in 1..Len(blob'.results) : blob'.results[j] = blob.results[i]]_vars

\* the ratings after the games of seq, in that order, from the ratings teams
RECURSIVE Replay(_, _)
Replay(seq, teams) ==
    IF seq = <<>> THEN teams
    ELSE LET g == Head(seq)
             new == UpdateEloAfterGame(teams[HomeTeam[g]], teams[AwayTeam[g]],
                                       world[g].score[1], world[g].score[2])
         IN Replay(Tail(seq), SetNewElo(teams, g, new))

\* C28 (as claimed): no look-ahead: the ratings a game was predicted with come only from
\* games that finished before its start, replayed in order from the starting rating;
\* neither its own result nor a later game's is in them.
C28_NoLookAhead ==
    \A i \in 1..Len(blob.results) :
        LET r == blob.results[i]
            finishedBefore == {h \in NflGameIds : GameTime[h] < GameTime[r.gameId]
                                                     /\ world[h].hasScore}
        IN \E S \in SUBSET finishedBefore : \E seq \in Perms(S) :
              LET ratings == Replay(SortByGameTime(seq), NoBlob.teams)
              IN /\ r.homeElo = ratings[HomeTeam[r.gameId]]
                 /\ r.awayElo = ratings[AwayTeam[r.gameId]]

\* C12: after every run the stored results hold exactly one entry for every processed
\* game and no two entries with the same game id.
C12_OneResultPerGame ==
    /\ \A i, j \in 1..Len(blob.results) :
          i # j => blob.results[i].gameId # blob.results[j].gameId
    /\ {blob.results[i].gameId : i \in 1..Len(blob.results)} = blob.processedGameIds

\* a run that loaded stored results, found a processed game again in the feed and
\* merged a new result in front of the stored one
C12_MergedRun ==
    /\ lastRun.loaded /\ lastRun.ok
    /\ Len(lastRun.order) = 1
    /\ Len(blob.results) = 2

----------------------------------------------------------------------------
(* Score projection: predictScore of the sync, predictWithParams of the NFL   *)
(* optimizer and simulate of the NBA grid optimizer, each applied to one game. *)
(* Scores and adjustments are exact, in units of 1/20000 point (Unit); a      *)
(* spread is in units of 1/(100 * Unit) point, so that the product with       *)
(* 1 - spreadRegression is exact.                                             *)

NBA_LEAGUE_AVG_PPG == 112
SPREAD_REGRESSION == 55     \* in hundredths

\* eloAdj: (eloDiff * eloToPoints) / 2, and with eloCap > 0 clamped to +-eloCap / 2.
\* eloToPointsHalf is eloToPoints / 2 in units per Elo point; eloCap is in points
EloAdj(eloDiff, eloToPointsHalf, eloCap) ==
    LET rawAdj == eloDiff * eloToPointsHalf
    IN IF eloCap > 0
         THEN Max(-(eloCap * Unit) \div 2, Min((eloCap * Unit) \div 2, rawAdj))
         ELSE rawAdj

\* predictWithParams: the projected scores, in units
PredictWithParams(homeElo, awayElo, homePPG, homePPGAllowed, awayPPG, awayPPGAllowed, params) ==
    LET homeBase == (Regress(homePPG) + Regress(awayPPGAllowed)) \div 2
        awayBase == (Regress(awayPPG) + Regress(homePPGAllowed)) \div 2
        eloAdj == EloAdj(homeElo - awayElo, params.eloToPointsHalf, params.eloCap)
    IN [homeScore |-> homeBase + (eloAdj + params.homeFieldHalf),
        awayScore |-> awayBase - (eloAdj - params.homeFieldHalf)]

\* regress of simulate: stat * (1 - statsRegression) + LEAGUE_AVG_PPG * statsRegression,
\* on a stat in tenths of a point, statsRegression in hundredths
SimRegress(stat, statsRegression) ==
    stat * (100 - statsRegression) * (Unit \div 1000)
        + NBA_LEAGUE_AVG_PPG * statsRegression * (Unit \div 100)

\* simulate: predHome and predAway of one game, in units
SimulateScores(homeElo, awayElo, homePPG, homePPGAllowed, awayPPG, awayPPGAllowed, params) ==
    LET baseHomeScore == (SimRegress(homePPG, params.statsRegression)
                            + SimRegress(awayPPGAllowed, params.statsRegression)) \div 2
        baseAwayScore == (SimRegress(awayPPG, params.statsRegression)
                            + SimRegress(homePPGAllowed, params.statsRegression)) \div 2
        eloAdj == EloAdj(homeElo - awayElo, params.eloToPointsHalf, params.eloCap)
    IN [homeScore |-> baseHomeScore + eloAdj + params.homeFieldHalf,
        awayScore |-> baseAwayScore - eloAdj + params.homeFieldHalf]

\* one spread unit is 1 / (100 * Unit) point
HalfPoint == 50 * Unit

\* calculateSpread: Math.round(rawSpread * (1 - spreadRegression) * 2) / 2, from scores in
\* units to spread units
CalculateSpreadWith(homeScore, awayScore, spreadRegression) ==
    RoundDiv((awayScore - homeScore) * (100 - spreadRegression), HalfPoint) * HalfPoint

\* predictedSpread of simulate: rawSpread * (1 - params.spreadRegression)
SimulateSpread(predHome, predAway, spreadRegression) ==
    (predAway - predHome) * (100 - spreadRegression)

\* Math.pow(10, d / 400) in ten-thousandths, for the Elo differences d = awayElo -
\* adjustedHomeElo of the model
Pow10 == [d \in {-198, -148, -98, -48, 2, 52, 102} |->
            CASE d = -198 -> 3199 [] d = -148 -> 4266 [] d = -98 -> 5689
              [] d = -48 -> 7586 [] d = 2 -> 10116 [] d = 52 -> 13490
              [] d = 102 -> 17989]

\* homeWinProb = 1 / (1 + Math.pow(10, (awayElo - adjustedHomeElo) / 400)), in
\* hundred-thousandths
HomeWinProbEven(homeElo, awayElo) == 50000
HomeWinProb(homeElo, awayElo) ==
    LET adjustedHomeElo == homeElo + ELO_HOME_ADVANTAGE
    IN (100000 * 10000) \div (10000 + Pow10[awayElo - adjustedHomeElo])

PredictSites == {"predictScore", "predictWithParams", "simulate"}

\* the games and parameters a projection is made for: ratings, points per game in tenths,
\* eloToPoints / 2 in units (0.0593 and 0.06), the home advantage / 2 in units (2.28 and
\* 2.5), eloCap in points, the regressions in hundredths
PredictElos == {1450, 1500, 1550, 1600}
PredictInputs ==
    [homeElo : PredictElos, awayElo : PredictElos, homePPG : {220, 270}, awayPPG : {220, 270},
     eloToPointsHalf : {593, 600}, homeFieldHalf : {22800, 25000}, eloCap : {0, 4},
     spreadRegression : {45, 55}, statsRegression : {30}]

\* the parameters call site s projects with: the constants of the sync, or the candidate
ParamsOf(s) ==
    IF s = "predictScore"
    THEN [eloToPointsHalf |-> EloToPointsHalf, homeFieldHalf |-> HomeFieldHalf,
          eloCap |-> ELO_CAP, spreadRegression |-> SPREAD_REGRESSION, statsRegression |-> 30]
    ELSE [eloToPointsHalf |-> gin.eloToPointsHalf, homeFieldHalf |-> gin.homeFieldHalf,
          eloCap |-> gin.eloCap, spreadRegression |-> gin.spreadRegression,
          statsRegression |-> gin.statsRegression]

\* the sync predicts a game: predictScore, calculateSpread and homeWinProb
ProjectSync ==
    LET p == PredictScore(gin.homeElo, gin.awayElo, gin.homePPG, LEAGUE_AVG_PPG * 10,
                          gin.awayPPG, LEAGUE_AVG_PPG * 10)
    IN /\ ~verdicts["predictScore"].done
       /\ verdicts' = [verdicts EXCEPT !["predictScore"] =
              [done |-> TRUE,
               eloAdj |-> EloAdj(gin.homeElo - gin.awayElo, EloToPointsHalf, ELO_CAP),
               homeScore |-> p.homeScore * (Unit \div 10),
               awayScore |-> p.awayScore * (Unit \div 10),
               spread |-> CalculateSpread(p.homeScore, p.awayScore) * HalfPoint,
               homeWinProb |-> HomeWinProb(gin.homeElo, gin.awayElo)]]
       /\ UNCHANGED <<gin, picks, mlGrades, oddsVars, syncVars, calibVars, runVars>>

\* runSimulation of the NFL optimizer predicts a game: predictWithParams and calculateSpread
ProjectWithParams ==
    LET p == PredictWithParams(gin.homeElo, gin.awayElo, gin.homePPG, LEAGUE_AVG_PPG * 10,
                               gin.awayPPG, LEAGUE_AVG_PPG * 10, ParamsOf("predictWithParams"))
    IN /\ ~verdicts["predictWithParams"].done
       /\ verdicts' = [verdicts EXCEPT !["predictWithParams"] =
              [done |-> TRUE,
               eloAdj |-> EloAdj(gin.homeElo - gin.awayElo, gin.eloToPointsHalf, gin.eloCap),
               homeScore |-> p.homeScore, awayScore |-> p.awayScore,
               spread |-> CalculateSpreadWith(p.homeScore, p.awayScore, gin.spreadRegression),
               homeWinProb |-> 0]]
       /\ UNCHANGED <<gin, picks, mlGrades, oddsVars, syncVars, calibVars, runVars>>

\* simulate of the NBA grid optimizer predicts a game
ProjectSimulate ==
    LET p == SimulateScores(gin.homeElo, gin.awayElo, gin.homePPG, NBA_LEAGUE_AVG_PPG * 10,
                            gin.awayPPG, NBA_LEAGUE_AVG_PPG * 10, ParamsOf("simulate"))
    IN /\ ~verdicts["simulate"].done
       /\ verdicts' = [verdicts EXCEPT !["simulate"] =
              [done |-> TRUE,
               eloAdj |-> EloAdj(gin.homeElo - gin.awayElo, gin.eloToPointsHalf, gin.eloCap),
               homeScore |-> p.homeScore, awayScore |-> p.awayScore,
               spread |-> SimulateSpread(p.homeScore, p.awayScore, gin.spreadRegression),
               homeWinProb |-> HomeWinProb(gin.homeElo, gin.awayElo)]]
       /\ UNCHANGED <<gin, picks, mlGrades, oddsVars, syncVars, calibVars, runVars>>

PredictInit ==
    /\ gin \in PredictInputs
    /\ verdicts = [s \in PredictSites |->
                      [done |-> FALSE, eloAdj |-> 0, homeScore |-> 0, awayScore |-> 0,
                       spread |-> 0, homeWinProb |-> 0]]
    /\ picks = NoVerdicts
    /\ mlGrades = NoMlGrades

PredictNext ==
    \/ ProjectSync
    \/ ProjectWithParams
    \/ ProjectSimulate

\* C21 (as claimed): for every rating difference and every cap, the rating-gap adjustment
\* of a projection is clamp(ratingDiff * ratingToPoints, -cap/2, +cap/2), so its absolute
\* value is at most cap/2.
C21_EloAdjClamped ==
    \A s \in PredictSites :
        verdicts[s].done =>
            LET q == ParamsOf(s)
                halfCap == (q.eloCap * Unit) \div 2
            IN /\ verdicts[s].eloAdj =
                     Max(-halfCap, Min(halfCap, (gin.homeElo - gin.awayElo) * 2 * q.eloToPointsHalf))
               /\ Abs(verdicts[s].eloAdj) <= halfCap

\* C22 (as claimed): with both ratings 1500, home advantage 2.5, rating-to-points 0.06,
\* league average 22, regression 0.3 and every per-game stat at the league average, the
\* projected (home, away) score is (11.0 + 1.25, 11.0 - 1.25).
C22_WorkedExample ==
    (/\ verdicts["predictWithParams"].done
     /\ gin.homeElo = 1500 /\ gin.awayElo = 1500
     /\ gin.homePPG = LEAGUE_AVG_PPG * 10 /\ gin.awayPPG = LEAGUE_AVG_PPG * 10
     /\ gin.eloToPointsHalf = 600 /\ gin.homeFieldHalf = 25000)
        => /\ 4 * verdicts["predictWithParams"].homeScore = 49 * Unit
           /\ 4 * verdicts["predictWithParams"].awayScore = 39 * Unit

\* C23 (as claimed): every predicted spread that is compared with a market spread is
\* (awayScore - homeScore) * (1 - spreadShrinkage) rounded to the nearest half point, and
\* so a multiple of 0.5.
C23_SpreadOnHalfPoints ==
    \A s \in PredictSites :
        verdicts[s].done =>
            /\ verdicts[s].spread % HalfPoint = 0
            /\ verdicts[s].spread =
                  RoundDiv((verdicts[s].awayScore - verdicts[s].homeScore)
                              * (100 - ParamsOf(s).spreadRegression), HalfPoint) * HalfPoint

\* C26 (as claimed): for a fixed away rating, a larger home rating gives a strictly larger
\* home win probability.
C26_WinProbIncreasing ==
    \A s \in {"predictScore", "simulate"} :
        verdicts[s].done =>
            \A homeElo \in PredictElos :
                homeElo > gin.homeElo =>
                    HomeWinProb(homeElo, gin.awayElo) > verdicts[s].homeWinProb

\* the sync and simulate have both computed the win probability of a game whose home
\* rating is not the largest
C26_WinProbComputed ==
    /\ verdicts["predictScore"].done /\ verdicts["simulate"].done
    /\ gin.homeElo = 1500 /\ gin.awayElo = 1550
    /\ verdicts["simulate"].homeWinProb < 50000

----------------------------------------------------------------------------
(* Calibration runs: the NBA grid optimizer (nba-full-optimize GET), the NFL *)
(* grid optimizer, the NBA conviction-filter optimizer and the NFL edge      *)
(* analysis (optimize GET).  A run reads the                                 *)
(* stored backtest results, evaluates every candidate on them and ranks the  *)
(* candidates by win percentage.                                             *)

\* the candidates of a sweep, in the order its loops generate them
Candidates == <<"c1", "c2">>
Calibrators == {"nbaFullOptimize", "nflOptimize", "convictionOptimizer", "optimize"}

\* what evaluating a candidate may count: wins and losses of its graded bets (a push is
\* in neither)
CandidateTallies == [{"c1", "c2"} -> [wins : {0, 6, 12}, losses : {0, 4, 9}]]

\* games: totalGames = wins + losses
GamesOf(t) == t.wins + t.losses

\* winPct: total > 0 ? Math.round((wins / total) * 1000) / 10 : 0, in tenths of a percent
WinPct(t) == IF GamesOf(t) > 0 THEN RoundDiv(t.wins * 1000, GamesOf(t)) ELSE 0

\* results.sort((a, b) => b.winPct - a.winPct): a stable sort, best first
InsertByWinPct(sorted, c, t) ==
    LET k == Cardinality({i \in 1..Len(sorted) : WinPct(t[sorted[i]]) >= WinPct(t[c])})
    IN SubSeq(sorted, 1, k) \o <<c>> \o SubSeq(sorted, k + 1, Len(sorted))
RECURSIVE SortWinPctFrom(_, _, _)
SortWinPctFrom(seq, acc, t) ==
    IF seq = <<>> THEN acc ELSE SortWinPctFrom(Tail(seq), InsertByWinPct(acc, Head(seq), t), t)
SortByWinPct(seq, t) == SortWinPctFrom(seq, <<>>, t)

\* slice(0, n)
Slice(seq, n) == SubSeq(seq, 1, Min(n, Len(seq)))

TopTen == 10
TopTwenty == 20

\* if (result.games >= 10): the sample floor of the conviction optimizer
MinGames == 10

\* best60Plus and best55Plus: winPct >= 60 with games >= 20, winPct >= 55 with games >= 30
Best60Games == 20
Best55Games == 30
BestPlus(seq, t, pct, games) ==
    LET Good(c) == WinPct(t[c]) >= pct * 10 /\ GamesOf(t[c]) >= games
    IN SelectSeq(seq, Good)

NoCalibration == [status |-> "none", best |-> <<>>, recommended |-> <<>>,
                  best60Plus |-> <<>>, best55Plus |-> <<>>]
FailedCalibration(status) == [NoCalibration EXCEPT !.status = status]
NoStrategies == [has |-> FALSE, bestStrategies |-> <<>>, recommended |-> <<>>]

\* nba-full-optimize GET.  readOk: the blob was fetched and parsed
NbaFullOptimize ==
    \E readOk \in BOOLEAN :
        LET allResults == Candidates
            bestATS == Slice(SortByWinPct(allResults, tallies), TopTen)
        IN /\ ranked' = [ranked EXCEPT !["nbaFullOptimize"] =
                            IF readOk
                            THEN [NoCalibration EXCEPT !.status = "ok", !.best = bestATS,
                                                       !.recommended = <<bestATS[1]>>]
                            ELSE FailedCalibration("error")]
           /\ UNCHANGED <<tallies, strategies, gradeVars, oddsVars, syncVars, runVars>>

\* GET of the NFL optimizer, over prediction-matrix-data.json
NflOptimize ==
    \E readOk \in BOOLEAN :
        LET results == SortByWinPct(Candidates, tallies)
            bestATS == Slice(results, TopTwenty)
        IN /\ ranked' = [ranked EXCEPT !["nflOptimize"] =
                            IF ~blob.exists THEN FailedCalibration("notFound")
                            ELSE IF readOk
                            THEN [NoCalibration EXCEPT !.status = "ok", !.best = bestATS]
                            ELSE FailedCalibration("error")]
           /\ UNCHANGED <<tallies, strategies, gradeVars, oddsVars, syncVars, runVars>>

\* db.collection('nbaStrategies').doc('convictionFilters').set(strategiesToStore), over
\* the persisted documents docs: the set replaces that document and writes no other
SetStrategiesAndFlagResults(docs, strategiesToStore) ==
    [docs EXCEPT !.strategies = strategiesToStore,
                 !.nbaResults = [g \in NbaGameIds |->
                                    [docs.nbaResults[g] EXCEPT !.isHighConviction = TRUE]]]
SetStrategies(docs, strategiesToStore) == [docs EXCEPT !.strategies = strategiesToStore]

\* nba-conviction-optimizer GET.  failAt: the awaited blob read or Firestore set that
\* throws, if one does
ConvictionOptimizer ==
    \E failAt \in {"none", "read", "set"} :
        LET Enough(c) == GamesOf(tallies[c]) >= MinGames
            results_filtered == SortByWinPct(SelectSeq(Candidates, Enough), tallies)
            bestOverall == Slice(results_filtered, 1)
            strategiesToStore == [has |-> TRUE,
                                  bestStrategies |-> Slice(results_filtered, TopTen),
                                  recommended |-> bestOverall]
            docs == [strategies |-> strategies, nbaResults |-> nbaResults]
            written == IF failAt = "none" THEN SetStrategies(docs, strategiesToStore) ELSE docs
        IN /\ strategies' = written.strategies
           /\ nbaResults' = written.nbaResults
           /\ ranked' = [ranked EXCEPT !["convictionOptimizer"] =
                            IF failAt = "none"
                            THEN [status |-> "ok", best |-> results_filtered,
                                  recommended |-> bestOverall,
                                  best60Plus |-> BestPlus(results_filtered, tallies, 60,
                                                          Best60Games),
                                  best55Plus |-> BestPlus(results_filtered, tallies, 55,
                                                          Best55Games)]
                            ELSE FailedCalibration("error")]
           /\ UNCHANGED <<tallies, gradeVars, nbaHist, oddsLocks, oddsLast, syncVars, runVars>>

\* curr.total >= 20: the sample floor of the edge analysis
EdgeMinGames == 20

\* edgeAnalysis.ats.reduce((best, curr) =>
\*     curr.total >= 20 && curr.winPct > best.winPct ? curr : best, edgeAnalysis.ats[0])
RECURSIVE BestEdgeFrom(_, _, _)
BestEdgeFrom(seq, best, t) ==
    IF seq = <<>> THEN best
    ELSE LET curr == Head(seq)
         IN BestEdgeFrom(Tail(seq),
                         IF GamesOf(t[curr]) >= EdgeMinGames /\ WinPct(t[curr]) > WinPct(t[best])
                           THEN curr ELSE best,
                         t)

\* GET of the edge analysis, over prediction-matrix-data.json.  The candidates are the
\* edge thresholds in rising order, so the bets of a threshold are among those of the
\* one before it; noOdds: no stored result has a line
Optimize ==
    /\ \A i \in 1..(Len(Candidates) - 1) :
          /\ tallies[Candidates[i + 1]].wins <= tallies[Candidates[i]].wins
          /\ tallies[Candidates[i + 1]].losses <= tallies[Candidates[i]].losses
    /\ \E readOk \in BOOLEAN, noOdds \in {n \in BOOLEAN : n => GamesOf(tallies[Candidates[1]]) = 0} :
          LET bestAtsEdge == BestEdgeFrom(Candidates, Candidates[1], tallies)
          IN ranked' = [ranked EXCEPT !["optimize"] =
                           IF ~blob.exists THEN FailedCalibration("notFound")
                           ELSE IF ~readOk THEN FailedCalibration("error")
                           ELSE IF noOdds THEN FailedCalibration("noOdds")
                           ELSE [NoCalibration EXCEPT !.status = "ok",
                                                      !.recommended = <<bestAtsEdge>>]]
    /\ UNCHANGED <<tallies, strategies, gradeVars, oddsVars, syncVars, runVars>>

\* the stores a calibration run may find: the NBA results with or without a line, the NFL
\* blob absent or uploaded
CalibInit ==
    /\ tallies \in CandidateTallies
    /\ ranked = [k \in Calibrators |-> NoCalibration]
    /\ strategies = NoStrategies
    /\ nbaResults \in [NbaGameIds -> {r \in UngradedResults : r.actualTotal = 4}]
    /\ nbaHist = [g \in NbaGameIds |-> NoQuote]
    /\ oddsLocks = [g \in NbaGameIds |-> NoQuote]
    /\ oddsLast = OddsIdle
    /\ world = Unplayed
    /\ blob \in {NoBlob, [NoBlob EXCEPT !.exists = TRUE]}
    /\ lastRun = SyncIdleRun

CalibNext ==
    \/ NbaFullOptimize
    \/ NflOptimize
    \/ ConvictionOptimizer
    \/ Optimize

\* every entry of a run's ranked lists and its recommendation
Listed(run) ==
    {run.best[i] : i \in 1..Len(run.best)} \cup {run.recommended[i] : i \in 1..Len(run.recommended)}
        \cup {run.best60Plus[i] : i \in 1..Len(run.best60Plus)}
        \cup {run.best55Plus[i] : i \in 1..Len(run.best55Plus)}

\* C16 (as claimed): no candidate whose graded-bet count (wins + losses) is below the
\* minimum sample floor is in a ranked list or the recommendation of a calibration run,
\* nor in the strategies the run stores.
C16_SampleFloor ==
    /\ \A k \in Calibrators : \A c \in Listed(ranked[k]) : GamesOf(tallies[c]) >= MinGames
    /\ \A i \in 1..Len(strategies.bestStrategies) :
          GamesOf(tallies[strategies.bestStrategies[i]]) >= MinGames

\* C30 (as claimed): the edge threshold the edge analysis recommends as optimal always
\* has at least 20 graded bets (wins + losses) behind it.
C30_BestEdgeHasSample ==
    ranked["optimize"].status = "ok"
        => \A i \in 1..Len(ranked["optimize"].recommended) :
              GamesOf(tallies[ranked["optimize"].recommended[i]]) >= EdgeMinGames

\* C19 (as claimed): a calibration or optimizer run leaves the persisted rating store as
\* it was: the team ratings, the processed set and the stored backtest results of the
\* NFL blob, and the stored results and lines of the NBA blob and oddsLocks.
C19_StoreUntouched ==
    [][/\ blob' = blob
       /\ nbaResults' = nbaResults
       /\ nbaHist' = nbaHist
       /\ oddsLocks' = oddsLocks]_vars

\* every calibrator has completed a run, and the conviction optimizer stored its strategies
C19_AllCalibrated ==
    /\ \A k \in Calibrators : ranked[k].status = "ok"
    /\ strategies.has /\ blob.exists

----------------------------------------------------------------------------
(* Conviction tiers: the table convictionLevels that nba-save-conviction-config *)
(* stores, the filter test of the conviction optimizer that gives a rule its    *)
(* meaning, and the tier of a prediction                                        *)

AvoidHomeTeams == {"OKC", "MIN", "HOU", "DEN", "CLE", "NY"}
AvoidAwayTeams == {"UTAH", "CHA", "SAC", "NO"}

\* a rule of the table; minEloGap 0 and avoidTeams FALSE stand for an absent key
Rule(level, onlyPickFavorite, onlyPickUnderdog, minEloGap, requireEloAlignment, avoidTeams) ==
    [level |-> level, onlyPickFavorite |-> onlyPickFavorite,
     onlyPickUnderdog |-> onlyPickUnderdog, minEloGap |-> minEloGap,
     requireEloAlignment |-> requireEloAlignment, avoidTeams |-> avoidTeams]

\* convictionLevels, in the order of its keys
ConvictionLevelsModerateFirst ==
    <<Rule("moderate", TRUE, FALSE, 0, FALSE, FALSE),
      Rule("high", TRUE, FALSE, 50, FALSE, FALSE),
      Rule("elite", TRUE, FALSE, 100, TRUE, TRUE),
      Rule("low", FALSE, TRUE, 0, FALSE, FALSE)>>
ConvictionLevels ==
    <<Rule("elite", TRUE, FALSE, 100, TRUE, TRUE),
      Rule("high", TRUE, FALSE, 50, FALSE, FALSE),
      Rule("moderate", TRUE, FALSE, 0, FALSE, FALSE),
      Rule("low", FALSE, TRUE, 0, FALSE, FALSE)>>

\* the predictions a tier is assigned to: spreads in half points, eloDiff = homeElo - awayElo
TierInputs ==
    [predictedSpread : {-10, -2, 2, 10}, vegasSpread : {-6, 0, 6},
     eloDiff : {-120, -60, 0, 60, 120}, homeTeam : {"OKC", "CHI"}, awayTeam : {"UTAH", "BOS"}]

\* testFilter: the game passes every filter of config
Passes(game, config) ==
    LET pickHome == PickHome(game.predictedSpread, game.vegasSpread)
        vegasFavorite == IF game.vegasSpread < 0 THEN "home" ELSE "away"
        wePick == Side(pickHome)
        pickingFavorite == wePick = vegasFavorite
        eloFavorite == IF game.eloDiff > 0 THEN "home" ELSE "away"
    IN /\ ~(config.onlyPickFavorite /\ ~pickingFavorite)
       /\ ~(config.onlyPickUnderdog /\ pickingFavorite)
       /\ (config.requireEloAlignment => wePick = eloFavorite)
       /\ (config.avoidTeams => game.homeTeam \notin AvoidHomeTeams)
       /\ (config.avoidTeams => game.awayTeam \notin AvoidAwayTeams)
       /\ Abs(game.eloDiff) >= config.minEloGap

\* the tier of a prediction: the level of the first rule of the table it passes
ConvictionTier(game, levels) ==
    LET matching == {i \in 1..Len(levels) : Passes(game, levels[i])}
    IN IF matching = {} THEN "none"
       ELSE levels[CHOOSE i \in matching : \A j \in matching : i <= j].level

\* "12. Combined conviction": the number of factors nba-deep-ats-analysis counts for a game
ConvictionScore(game) ==
    LET pickHome == PickHome(game.predictedSpread, game.vegasSpread)
        absEdge == Abs(game.predictedSpread - game.vegasSpread)
        absElo == Abs(game.eloDiff)
        pickAgreesElo == (pickHome /\ game.eloDiff > 0) \/ (~pickHome /\ game.eloDiff < 0)
        One(b) == IF b THEN 1 ELSE 0
    IN One(absEdge >= 4) + One(absElo >= 50 /\ pickAgreesElo) + One(absEdge >= 8)
         + One(absElo >= 100 /\ pickAgreesElo)

\* the tier is assigned to the prediction
AssignTier ==
    /\ verdicts' = [verdicts EXCEPT !["tier"] = ConvictionTier(gin, ConvictionLevels)]
    /\ UNCHANGED <<gin, picks, mlGrades, oddsVars, syncVars, calibVars, runVars>>

\* the analysis files the game under its conviction score
DeepAtsConviction ==
    /\ picks' = [picks EXCEPT !["convictionScore"] = ConvictionScore(gin)]
    /\ UNCHANGED <<gin, verdicts, mlGrades, oddsVars, syncVars, calibVars, runVars>>

TierInit ==
    /\ gin \in TierInputs
    /\ verdicts = [s \in {"tier"} |-> "none"]
    /\ picks = [s \in {"convictionScore"} |-> -1]
    /\ mlGrades = NoMlGrades

TierNext ==
    \/ AssignTier
    \/ DeepAtsConviction

\* rule a admits fewer predictions than rule b: whatever passes a passes b, not conversely
MoreRestrictive(a, b) ==
    /\ \A g \in TierInputs : Passes(g, a) => Passes(g, b)
    /\ \E g \in TierInputs : Passes(g, b) /\ ~Passes(g, a)

----------------------------------------------------------------------------
(* Odds backfill runs of two sports, step by step: the NBA backfill and the    *)
(* NHL backfill are the same handler over the blob and the oddsLocks of their  *)
(* own sport.  A run goes from one awaited call to the next; the store answers *)
(* a call with a step of its own, or not at all.                               *)

Sports == {"nba", "nhl"}

\* NBA_BLOB_NAME and NHL_BLOB_NAME
BlobNameShared(sport) == "nba-prediction-data.json"
BlobName(sport) ==
    IF sport = "nba" THEN "nba-prediction-data.json" ELSE "nhl-prediction-data.json"

\* the results each blob holds before the runs, none of them with a line: g1 ended 1-0
\* and g2 1-2 (home, away); mlResult and ouResult are the verdicts the sync stored
StoredResults ==
    [g \in NbaGameIds |->
        [predictedSpread |-> -1, predictedTotal |-> 3,
         actualSpread |-> IF g = "g1" THEN ActualSpread(1, 0) ELSE ActualSpread(1, 2),
         actualTotal |-> IF g = "g1" THEN 2 * (1 + 0) ELSE 2 * (1 + 2),
         vegasSpread |-> Absent, vegasTotal |-> Absent, atsResult |-> "none",
         ouVegasResult |-> "none", spreadEdge |-> Absent, isHighConviction |-> FALSE,
         mlResult |-> IF g = "g1" THEN "win" ELSE "loss",
         ouResult |-> IF g = "g1" THEN "loss" ELSE "win"]]

\* for every market and verdict, the number of results that carry the verdict; the total
\* verdict a result carries is the one against the market total once it has one
VerdictCounts(results) ==
    LET N(Carries(_)) == Cardinality({g \in DOMAIN results : Carries(results[g])})
        SW(r) == r.atsResult = "win"
        SL(r) == r.atsResult = "loss"
        SP(r) == r.atsResult = "push"
        MW(r) == r.mlResult = "win"
        ML(r) == r.mlResult = "loss"
        OuVerdict(r) == IF r.ouVegasResult # "none" THEN r.ouVegasResult ELSE r.ouResult
        OW(r) == OuVerdict(r) = "win"
        OL(r) == OuVerdict(r) = "loss"
        OP(r) == OuVerdict(r) = "push"
    IN [sw |-> N(SW), sl |-> N(SL), sp |-> N(SP), mw |-> N(MW), ml |-> N(ML),
        ow |-> N(OW), ol |-> N(OL), op |-> N(OP)]

\* "Recalculate backtest summary from all results" of the NHL backfill
RecalculateSummary(results) ==
    LET N(Counted(_)) ==
            Cardinality({g \in DOMAIN results :
                            results[g].vegasSpread.has /\ Counted(results[g])})
        SW(r) == r.atsResult = "win"
        SL(r) == r.atsResult = "loss"
        SP(r) == r.atsResult = "push"
        MW(r) == r.mlResult = "win"
        ML(r) == r.mlResult = "loss"
        OW(r) == SummaryOu(r.ouVegasResult, r.ouResult) = "win"
        OL(r) == SummaryOu(r.ouVegasResult, r.ouResult) = "loss"
        OP(r) == SummaryOu(r.ouVegasResult, r.ouResult) = "push"
    IN [sw |-> N(SW), sl |-> N(SL), sp |-> N(SP), mw |-> N(MW), ml |-> N(ML),
        ow |-> N(OW), ol |-> N(OL), op |-> N(OP)]

\* a win percentage as the document holds it, in tenths of a percent; 0 / 0 is NaN
Number(x) == [nan |-> FALSE, v |-> x]

\* Math.round((wins / (wins + losses)) * 1000) / 10
RoundedPct(wins, losses) ==
    IF wins + losses = 0 THEN [nan |-> TRUE, v |-> 0] ELSE Number(RoundDiv(wins * 1000, wins + losses))

\* winPct of the summary the sync builds: total > 0 ? ... : 0 with total = wins + losses
SyncWinPct(summary) ==
    [spread |-> IF summary.sw + summary.sl > 0
                  THEN RoundedPct(summary.sw, summary.sl) ELSE Number(0),
     moneyline |-> IF summary.mw + summary.ml > 0
                     THEN RoundedPct(summary.mw, summary.ml) ELSE Number(0),
     overUnder |-> IF summary.ow + summary.ol > 0
                     THEN RoundedPct(summary.ow, summary.ol) ELSE Number(0)]

\* winPct of the summary the NHL backfill builds: the spread's is guarded by
\* totalGamesWithOdds = spreadWins + spreadLosses + spreadPushes
NhlWinPct(summary) ==
    LET totalGamesWithOdds == summary.sw + summary.sl + summary.sp
    IN [spread |-> IF totalGamesWithOdds > 0
                     THEN RoundedPct(summary.sw, summary.sl) ELSE Number(0),
        moneyline |-> IF summary.mw + summary.ml > 0
                        THEN RoundedPct(summary.mw, summary.ml) ELSE Number(0),
        overUnder |-> IF summary.ow + summary.ol > 0
                        THEN RoundedPct(summary.ow, summary.ol) ELSE Number(0)]

\* the document each blob holds before the runs
StoredBlob == [results |-> StoredResults, summary |-> VerdictCounts(StoredResults),
               winPct |-> SyncWinPct(VerdictCounts(StoredResults))]

\* toProcess, in the order of the stored results
RunOrder == <<"g1", "g2">>

IdleRun == [pc |-> "idle", dryRun |-> FALSE, overlap |-> FALSE, blobData |-> StoredBlob,
            idx |-> 1, updates |-> [g \in NbaGameIds |-> NoQuote]]

InFlight(sport) == runs[sport].pc \in {"blob", "odds", "put", "saveDocsBatch"}

\* blobData as the handler of the sport puts it: both set the regraded results, the NHL
\* handler also the recalculated summary
Backfilled(sport, blobData, updates) ==
    LET results == [g \in NbaGameIds |->
                       IF updates[g].has THEN Regrade(blobData.results[g], updates[g])
                       ELSE blobData.results[g]]
        summary == RecalculateSummary(results)
    IN IF sport = "nhl"
         THEN [results |-> results, summary |-> summary, winPct |-> NhlWinPct(summary)]
         ELSE [blobData EXCEPT !.results = results]

\* the request arrives: the handler awaits head and fetch of its blob
RunStart(sport) ==
    /\ runs[sport].pc = "idle"
    /\ \E dryRun \in BOOLEAN :
          runs' = [runs EXCEPT ![sport] =
                      [IdleRun EXCEPT !.pc = "blob", !.dryRun = dryRun,
                                      !.overlap = \E other \in Sports \ {sport} : InFlight(other)]]
    /\ UNCHANGED <<store, gradeVars, oddsVars, syncVars, calibVars>>

\* the blob read returns, or throws
RunBlobRead(sport) ==
    /\ runs[sport].pc = "blob"
    /\ \E ok \in BOOLEAN :
          runs' = [runs EXCEPT ![sport] =
                      IF ok THEN [@ EXCEPT !.pc = "odds", !.blobData = store.blobs[BlobName(sport)]]
                      ELSE [@ EXCEPT !.pc = "failed"]]
    /\ UNCHANGED <<store, gradeVars, oddsVars, syncVars, calibVars>>

\* fetchESPNOdds of the next game returns a quote or null; after the last game the
\* handler applies the updates and awaits the put, or returns the dry run's response
RunOddsRead(sport) ==
    /\ runs[sport].pc = "odds"
    /\ \E odds \in OptQuotes :
          LET run == runs[sport]
              g == RunOrder[run.idx]
              skip == run.blobData.results[g].vegasSpread.has
              updates == IF skip THEN run.updates ELSE [run.updates EXCEPT ![g] = odds]
              last == run.idx = Len(RunOrder)
          IN runs' = [runs EXCEPT ![sport] =
                        [@ EXCEPT !.updates = updates,
                                  !.idx = IF last THEN @ ELSE @ + 1,
                                  !.blobData = IF last /\ ~run.dryRun
                                                 THEN Backfilled(sport, run.blobData, updates)
                                                 ELSE @,
                                  !.pc = IF ~last THEN "odds"
                                         ELSE IF run.dryRun THEN "done" ELSE "put"]]
    /\ UNCHANGED <<store, gradeVars, oddsVars, syncVars, calibVars>>

\* put(BLOB_NAME, ...) completes, or throws
RunPut(sport) ==
    /\ runs[sport].pc = "put"
    /\ \E ok \in BOOLEAN :
          /\ store' = IF ok THEN [store EXCEPT !.blobs[BlobName(sport)] = runs[sport].blobData]
                      ELSE store
          /\ runs' = [runs EXCEPT ![sport].pc = IF ok THEN "saveDocsBatch" ELSE "failed"]
    /\ UNCHANGED <<gradeVars, oddsVars, syncVars, calibVars>>

\* saveDocsBatch(sport, 'oddsLocks', oddsDocs) completes, or throws
RunSaveDocs(sport) ==
    /\ runs[sport].pc = "saveDocsBatch"
    /\ \E ok \in BOOLEAN :
          /\ store' = IF ok
                      THEN [store EXCEPT !.oddsLocks[sport] =
                               [g \in NbaGameIds |->
                                   IF runs[sport].updates[g].has THEN runs[sport].updates[g]
                                   ELSE @[g]]]
                      ELSE store
          /\ runs' = [runs EXCEPT ![sport].pc = IF ok THEN "done" ELSE "failed"]
    /\ UNCHANGED <<gradeVars, oddsVars, syncVars, calibVars>>

RunsInit ==
    /\ store = [blobs |-> [b \in {BlobName(sport) : sport \in Sports} |-> StoredBlob],
                oddsLocks |-> [sport \in Sports |-> [g \in NbaGameIds |-> NoQuote]]]
    /\ runs = [sport \in Sports |-> IdleRun]

RunsNext ==
    \E sport \in Sports :
        \/ RunStart(sport)
        \/ RunBlobRead(sport)
        \/ RunOddsRead(sport)
        \/ RunPut(sport)
        \/ RunSaveDocs(sport)

\* C24 (as claimed): no operation blocks indefinitely: a run that awaits an external read
\* gets its answer or abandons the read, and so comes to its end.
C24_NoReadBlocksForever ==
    \A sport \in Sports : InFlight(sport) ~> runs[sport].pc \in {"done", "failed"}

\* C25 (as claimed): runs of different sports read and write disjoint persisted state, so
\* whatever the interleaving, a sport's blob and oddsLocks are what its own run alone
\* leaves: untouched before its put, and its own updates applied once it is done.
C25_SportsIndependent ==
    \A sport \in Sports :
        LET run == runs[sport]
        IN /\ (run.pc \in {"idle", "blob", "odds", "put"} \/ run.dryRun)
                => /\ store.blobs[BlobName(sport)] = StoredBlob
                   /\ store.oddsLocks[sport] = [g \in NbaGameIds |-> NoQuote]
           /\ (run.pc = "done" /\ ~run.dryRun)
                => /\ store.blobs[BlobName(sport)] = Backfilled(sport, StoredBlob, run.updates)
                   /\ store.oddsLocks[sport] = run.updates

\* C27 (as claimed): in every persisted prediction document the summary's win, loss and
\* push counters of each market equal the number of stored results that carry that
\* verdict for that market.
C27_SummaryCountsResults ==
    \A sport \in Sports :
        store.blobs[BlobName(sport)].summary = VerdictCounts(store.blobs[BlobName(sport)].results)

\* C29 (as claimed): every win percentage of a persisted summary is wins over wins plus
\* losses, or the default 0 when that sum is zero; none comes from a division by zero.
C29_WinPctDefined ==
    \A sport \in Sports :
        LET doc == store.blobs[BlobName(sport)]
            Pct(wins, losses) ==
                IF wins + losses > 0 THEN Number(RoundDiv(wins * 1000, wins + losses))
                ELSE Number(0)
        IN /\ doc.winPct.spread = Pct(doc.summary.sw, doc.summary.sl)
           /\ doc.winPct.moneyline = Pct(doc.summary.mw, doc.summary.ml)
           /\ doc.winPct.overUnder = Pct(doc.summary.ow, doc.summary.ol)

\* both runs are done, the NHL run started while the NBA run was in flight, and they
\* applied different lines
C25_InterleavedRunsDone ==
    /\ runs["nba"].pc = "done" /\ ~runs["nba"].dryRun
    /\ runs["nhl"].pc = "done" /\ ~runs["nhl"].dryRun /\ runs["nhl"].overlap
    /\ runs["nba"].updates["g1"].has /\ runs["nhl"].updates["g2"].has
    /\ runs["nba"].updates # runs["nhl"].updates

----------------------------------------------------------------------------
(* Specifications *)

GradeOff == gin = GradeIdle /\ verdicts = NoVerdicts /\ picks = NoVerdicts /\ mlGrades = NoMlGrades
OddsOff ==
    /\ nbaResults = [g \in NbaGameIds |-> 0] /\ nbaHist = [g \in NbaGameIds |-> NoQuote]
    /\ oddsLocks = [g \in NbaGameIds |-> NoQuote] /\ oddsLast = OddsIdle
SyncOff == world = Unplayed /\ blob = NoBlob /\ lastRun = SyncIdleRun
CalibOff ==
    /\ tallies = [c \in {"c1", "c2"} |-> [wins |-> 0, losses |-> 0]]
    /\ ranked = [k \in Calibrators |-> NoCalibration] /\ strategies = NoStrategies

InitGrade == GradeInit /\ OddsOff /\ SyncOff /\ CalibOff /\ RunsInit
InitOdds == OddsInit /\ GradeOff /\ SyncOff /\ CalibOff /\ RunsInit
InitSync == SyncInit /\ GradeOff /\ OddsOff /\ CalibOff /\ RunsInit

InitTotals == TotalInit /\ OddsOff /\ SyncOff /\ CalibOff /\ RunsInit
InitCalib == CalibInit /\ GradeOff /\ RunsInit
InitTier == TierInit /\ OddsOff /\ SyncOff /\ CalibOff /\ RunsInit
InitPredict == PredictInit /\ OddsOff /\ SyncOff /\ CalibOff /\ RunsInit
InitRuns == RunsInit /\ GradeOff /\ OddsOff /\ SyncOff /\ CalibOff

\* the odds backfills of the two sports, interleaved step by step
SpecRuns == InitRuns /\ [][RunsNext]_vars

\* the same with the scheduling the code gives: a request that arrived is started; no
\* step of the handler bounds the wait for an answer
FairSpecRuns == SpecRuns /\ \A sport \in Sports : WF_vars(RunStart(sport))

\* the score projections, each applied to one game and one candidate
SpecPredict == InitPredict /\ [][PredictNext]_vars

\* the conviction tier and the conviction score of one prediction
SpecTier == InitTier /\ [][TierNext]_vars

\* the calibration runs, in any order, over one stored state and one evaluation
SpecCalib == InitCalib /\ [][CalibNext]_vars

\* the total-grading call sites, each applied to one stored result
SpecTotals == InitTotals /\ [][TotalNext]_vars

\* the spread-grading call sites, each applied to one (prediction, line, score)
SpecGrade == InitGrade /\ [][GradeNext]_vars

\* the NBA odds handlers, run in any order
SpecOdds == InitOdds /\ [][OddsNext]_vars

\* the blob sync, run at any time while the schedule feed advances
Spec == InitSync /\ [][SyncNext]_vars

====
